---- MODULE Spec2Model ----
(***************************************************************************)
(* Collecta worker: text chunking (worker/app/chunking.py), the            *)
(* delete-then-bulk-write replace protocol (worker/app/main.py, es.py) and *)
(* the outbox consumer loop, the three routes and the cached embedding     *)
(* model (worker/app/main.py).                                             *)
(*                                                                         *)
(* A text is a sequence of one-character strings.                          *)
(***************************************************************************)
EXTENDS Integers, Sequences, FiniteSets, TLC

\* ---------------------------------------------------------------- bounds
MaxLen == 5
MaxStream == 2
MaxFaults == 1
MaxRestarts == 1
MaxRequests == 2
MaxDeletions == 1
MaxSegments == 3
MaxCalls == 3

\* ------------------------------------------------------- text primitives
NL == "\n"
CR == "\r"
SP == " "

\* Characters that Python's str.strip() removes.
IsSpace(c) == c \in {SP, NL, CR, "\t"}

Min(a, b) == IF a <= b THEN a ELSE b
Max(a, b) == IF a >= b THEN a ELSE b

RECURSIVE LStrip(_)
LStrip(s) == IF s = <<>> THEN <<>>
             ELSE IF IsSpace(Head(s)) THEN LStrip(Tail(s)) ELSE s

RECURSIVE RStrip(_)
RStrip(s) == IF s = <<>> THEN <<>>
             ELSE IF IsSpace(s[Len(s)]) THEN RStrip(SubSeq(s, 1, Len(s) - 1)) ELSE s

\* str.strip()
Strip(s) == RStrip(LStrip(s))

\* str.replace("\r\n", "\n"): left to right, non-overlapping.
RECURSIVE ReplaceCRLF(_)
ReplaceCRLF(s) ==
    IF s = <<>> THEN <<>>
    ELSE IF Len(s) >= 2 /\ s[1] = CR /\ s[2] = NL
         THEN <<NL>> \o ReplaceCRLF(SubSeq(s, 3, Len(s)))
         ELSE <<Head(s)>> \o ReplaceCRLF(Tail(s))

\* str.replace("\r", "\n")
ReplaceCR(s) == [k \in 1..Len(s) |-> IF s[k] = CR THEN NL ELSE s[k]]

\* str.split("\n"): always at least one field.
RECURSIVE SplitNL(_)
SplitNL(s) ==
    IF \A k \in 1..Len(s) : s[k] # NL THEN <<s>>
    ELSE LET p == CHOOSE k \in 1..Len(s) :
                      s[k] = NL /\ \A j \in 1..(k - 1) : s[j] # NL
         IN  <<SubSeq(s, 1, p - 1)>> \o SplitNL(SubSeq(s, p + 1, Len(s)))

\* "\n".join(lines)
RECURSIVE JoinNL(_)
JoinNL(lines) ==
    IF lines = <<>> THEN <<>>
    ELSE IF Len(lines) = 1 THEN lines[1]
    ELSE lines[1] \o <<NL>> \o JoinNL(Tail(lines))

RECURSIVE NonEmpty(_)
NonEmpty(lines) ==
    IF lines = <<>> THEN <<>>
    ELSE IF Head(lines) = <<>> THEN NonEmpty(Tail(lines))
    ELSE <<Head(lines)>> \o NonEmpty(Tail(lines))

\* normalize_text that turns "\r" into "\n" last, after the lines were joined.
normalize_text_late_cr(text) ==
    LET lines == [k \in 1..Len(SplitNL(text)) |-> Strip(SplitNL(text)[k])]
    IN  ReplaceCR(ReplaceCRLF(Strip(JoinNL(NonEmpty(lines)))))

normalize_text(text) ==
    LET t0    == ReplaceCR(ReplaceCRLF(text))
        lines == [k \in 1..Len(SplitNL(t0)) |-> Strip(SplitNL(t0)[k])]
    IN  Strip(JoinNL(NonEmpty(lines)))

\* Python slice s[lo:hi] for integer lo, hi (negative indices count from the end).
Slice(s, lo, hi) ==
    LET n  == Len(s)
        l0 == IF lo < 0 THEN Max(lo + n, 0) ELSE Min(lo, n)
        h0 == IF hi < 0 THEN Max(hi + n, 0) ELSE Min(hi, n)
    IN  IF l0 >= h0 THEN <<>> ELSE SubSeq(s, l0 + 1, h0)


\* ------------------------------------------------- chunking.py: the chunker
Alphabet == {"a", SP, NL}
Texts == UNION {[1..k -> Alphabet] : k \in 0..MaxLen}

\* page_index = None
NoPage == -1

MaxCharsSet == -1..3
MinCharsSet == 0..3
OverlapSet == -1..2
PageSet == {NoPage, 1}
StartSet == {0, 3}

\* The window loop never emits more chunks than this on a terminating run.
MaxChunks == MaxLen + 1

VARIABLES ck_args, ck_pc, ck_t, ck_i, ck_pos, ck_chunks, ck_raw

chunkVars == <<ck_args, ck_pc, ck_t, ck_i, ck_pos, ck_chunks, ck_raw>>

Chunk(text, page_index, position) ==
    [text |-> text, page_index |-> page_index, position |-> position]

\* One pass through the body of `while i < n` (chunking.py 42-49).
WindowStep(t, max_chars, overlap_chars, page_index, i, pos, chunks) ==
    LET n     == Len(t)
        end   == Min(i + max_chars, n)
        piece == Strip(Slice(t, i, end))
        emit  == piece # <<>>
    IN  [chunks |-> IF emit THEN Append(chunks, Chunk(piece, page_index, pos))
                    ELSE chunks,
         pos    |-> IF emit THEN pos + 1 ELSE pos,
         brk    |-> end >= n,
         i      |-> IF end >= n THEN i ELSE Max(0, end - overlap_chars)]

\* MergeTail with the guard written `len(chunks) > 2`.
MergeTail_needs_three(chunks, min_chars) ==
    LET k == Len(chunks)
    IN  IF k > 2 /\ Len(chunks[k].text) < min_chars
        THEN LET merged == Strip(chunks[k - 1].text \o <<NL>> \o chunks[k].text)
             IN  Append(SubSeq(chunks, 1, k - 2),
                        Chunk(merged, chunks[k - 1].page_index, chunks[k - 1].position))
        ELSE chunks

\* MergeTail whose merged chunk takes the place of the last chunk: its
\* page_index and position.
MergeTail_keeps_last(chunks, min_chars) ==
    LET k == Len(chunks)
    IN  IF k >= 2 /\ Len(chunks[k].text) < min_chars
        THEN LET merged == Strip(chunks[k - 1].text \o <<NL>> \o chunks[k].text)
             IN  Append(SubSeq(chunks, 1, k - 2),
                        Chunk(merged, chunks[k].page_index, chunks[k].position))
        ELSE chunks

\* The tail merge (chunking.py 51-58).
MergeTail(chunks, min_chars) ==
    LET k == Len(chunks)
    IN  IF k >= 2 /\ Len(chunks[k].text) < min_chars
        THEN LET merged == Strip(chunks[k - 1].text \o <<NL>> \o chunks[k].text)
             IN  Append(SubSeq(chunks, 1, k - 2),
                        Chunk(merged, chunks[k - 1].page_index, chunks[k - 1].position))
        ELSE chunks

\* chunking.py 41-49 run to the end of the loop. A run that terminates visits
\* each window start at most once, so it makes at most Len(t) passes; fuel is
\* only exhausted by a configuration that never leaves the loop.
RECURSIVE ChunkWindows(_, _, _, _, _, _, _, _)
ChunkWindows(t, max_chars, overlap_chars, page_index, i, pos, chunks, fuel) ==
    LET r == WindowStep(t, max_chars, overlap_chars, page_index, i, pos, chunks)
    IN  IF r.brk \/ ~(r.i < Len(t)) \/ fuel = 0 THEN r.chunks
        ELSE ChunkWindows(t, max_chars, overlap_chars, page_index,
                          r.i, r.pos, r.chunks, fuel - 1)

chunk_text_by_chars(text, max_chars, min_chars, overlap_chars, page_index, start_position) ==
    LET t == normalize_text(text)
    IN  IF t = <<>> THEN <<>>
        ELSE IF Len(t) <= max_chars THEN <<Chunk(t, page_index, start_position)>>
        ELSE MergeTail(ChunkWindows(t, max_chars, overlap_chars, page_index,
                                    0, start_position, <<>>, Len(t)), min_chars)

\* ------------------------------------------ main.py: documents and the index
Rids == {1, 2}

\* One index document (main.py 238-251). The resource-level metadata copied
\* unchanged into every document (resource_type, domain, tags, status,
\* is_pinned, created_at, source_kind) is left out.
Doc(resource_id, c) ==
    [resource_id |-> ToString(resource_id), page_index |-> c.page_index,
     position |-> c.position, chunk_text |-> c.text]

\* AssembleStep that numbers the chunks of every segment from 0.
AssembleStep_reset(resource_id, segment, chunking, pos) ==
    LET chunks == chunk_text_by_chars(segment.text, chunking.max_chars,
                                      chunking.min_chars, chunking.overlap_chars,
                                      segment.page_index, 0)
    IN  [docs |-> [k \in 1..Len(chunks) |-> Doc(resource_id, chunks[k])],
         pos  |-> pos + Len(chunks)]

\* One pass of `for page_index, text in segments` (main.py 226-253): the docs it
\* appends and pos after it.
AssembleStep(resource_id, segment, chunking, pos) ==
    LET chunks == chunk_text_by_chars(segment.text, chunking.max_chars,
                                      chunking.min_chars, chunking.overlap_chars,
                                      segment.page_index, pos)
    IN  [docs |-> [k \in 1..Len(chunks) |-> Doc(resource_id, chunks[k])],
         pos  |-> pos + Len(chunks)]

RECURSIVE build_chunk_docs_from(_, _, _, _)
build_chunk_docs_from(resource_id, segments, chunking, pos) ==
    IF segments = <<>> THEN <<>>
    ELSE LET r == AssembleStep(resource_id, Head(segments), chunking, pos)
         IN  r.docs \o build_chunk_docs_from(resource_id, Tail(segments), chunking, r.pos)

build_chunk_docs(resource_id, segments, chunking) ==
    build_chunk_docs_from(resource_id, segments, chunking, 0)

\* The chunking options and the extracted segments of the requests explored.
RequestChunking == [max_chars |-> 2, min_chars |-> 1, overlap_chars |-> 0]
Segment(page_index, text) == [page_index |-> page_index, text |-> text]
RequestSegments ==
    { <<Segment(NoPage, <<"a">>)>>,
      <<Segment(0, <<"b", "b", "b">>)>> }

\* build_chunk_docs on each of these requests (main.py 329-340).
RequestDocs ==
    [resource_id \in Rids, segments \in RequestSegments |->
        build_chunk_docs(resource_id, segments, RequestChunking)]

\* The index holds documents under generated ids, so equal documents can be
\* stored several times: a bag, as a function from document to its count.
EmptyIndex == [d \in {} |-> 0]

RECURSIVE BagOfSeq(_)
BagOfSeq(docs) ==
    IF docs = <<>> THEN EmptyIndex
    ELSE LET rest == BagOfSeq(Tail(docs))
             d    == Head(docs)
         IN  IF d \in DOMAIN rest THEN [rest EXCEPT ![d] = @ + 1]
             ELSE rest @@ (d :> 1)

BagSum(a, b) ==
    [d \in DOMAIN a \cup DOMAIN b |->
        (IF d \in DOMAIN a THEN a[d] ELSE 0) + (IF d \in DOMAIN b THEN b[d] ELSE 0)]

\* The entries a term query on resource_id = rid_str matches.
EntriesOf(index, rid_str) ==
    [d \in {x \in DOMAIN index : x.resource_id = rid_str} |-> index[d]]

\* A delete_by_query that matches nothing.
DeleteByQuery_keeps_all(index, rid_str) == index

\* es.delete_by_query(term resource_id, refresh=True) on an existing index.
DeleteByQuery(index, rid_str) ==
    [d \in {x \in DOMAIN index : x.resource_id # rid_str} |-> index[d]]

\* delete_by_resource_id whose query matches nothing.
delete_by_resource_id_noop(index, exists, resource_id, unreachable) ==
    [index |-> index, raised |-> unreachable]

\* delete_by_resource_id that re-raises index_not_found_exception.
delete_by_resource_id_strict(index, exists, resource_id, unreachable) ==
    IF unreachable \/ ~exists THEN [index |-> index, raised |-> TRUE]
    ELSE [index |-> DeleteByQuery(index, ToString(resource_id)), raised |-> FALSE]

\* main.py 105-118. `unreachable`: the search engine does not answer, the call
\* raises; a missing index raises index_not_found_exception, which is swallowed.
delete_by_resource_id(index, exists, resource_id, unreachable) ==
    IF unreachable THEN [index |-> index, raised |-> TRUE]
    ELSE IF ~exists THEN [index |-> index, raised |-> FALSE]
    ELSE [index |-> DeleteByQuery(index, ToString(resource_id)), raised |-> FALSE]

\* bulk_index that writes all but the last document.
bulk_index_drops_last(index, exists, docs, unreachable) ==
    IF docs = <<>> THEN [index |-> index, exists |-> exists, raised |-> FALSE]
    ELSE IF unreachable THEN [index |-> index, exists |-> exists, raised |-> TRUE]
    ELSE [index |-> BagSum(index, BagOfSeq(SubSeq(docs, 1, Len(docs) - 1))),
          exists |-> TRUE, raised |-> FALSE]

\* bulk_index without the early return on an empty list.
bulk_index_no_early_return(index, exists, docs, unreachable) ==
    IF unreachable THEN [index |-> index, exists |-> exists, raised |-> TRUE]
    ELSE [index |-> BagSum(index, BagOfSeq(docs)), exists |-> TRUE, raised |-> FALSE]

\* es.py 13-25. An empty list returns before the engine is contacted; the
\* first write creates the index.
bulk_index(index, exists, docs, unreachable) ==
    IF docs = <<>> THEN [index |-> index, exists |-> exists, raised |-> FALSE]
    ELSE IF unreachable THEN [index |-> index, exists |-> exists, raised |-> TRUE]
    ELSE [index |-> BagSum(index, BagOfSeq(docs)), exists |-> TRUE, raised |-> FALSE]

\* ------------------------------------------------------ the shared state
Handlers == {"h1", "h2"}

VARIABLES
    es_index,     \* the documents of the search index (a bag)
    es_exists,    \* whether the index has been created
    h_pc,         \* per request handler: "idle", "delete", "bulk"
    h_rid,        \* req.resource_id of the handler's current or last request
    h_docs,       \* docs of that request
    h_kind,       \* the route serving it: "none", "document", "link", "embed"
    h_status,     \* "none", "running", the status of the response ("completed",
                  \* "completed_with_warnings", "failed"), "answered" (a response
                  \* without a status member), "unhandled" (an exception left
                  \* the handler), "hung" (the handler does not return)
    h_error,      \* errors[0].code of the response, "" when there is none
    h_warn,       \* whether the request's warnings list is non-empty
    h_raced,      \* history: what other index operations met this replace
    h_before,     \* history: the index when the delete was issued, see IndexDelete
    rs_stream,    \* the outbox stream: entry k has id k
    rs_group,     \* whether the consumer group exists
    rs_last,      \* the group's last-delivered id
    rs_pending,   \* the group's pending entries: delivered, not acknowledged
    c_pc,         \* the consumer thread: "setup", "poll", "decode", "delete",
                  \* "ack", "sleep", "dead"
    c_batch,      \* the messages of the current read still to be handled
    c_issued,     \* history: entries for which delete_by_resource_id was called
    c_deleted,    \* history: entries whose delete_by_resource_id returned
    faults,       \* calls that failed so far (bounded by MaxFaults)
    restarts,     \* process restarts so far (bounded by MaxRestarts)
    requests,     \* indexing requests accepted so far (bounded by MaxRequests)
    nm_text,      \* the text handed to normalize_text
    nm_pc,        \* "call", "once", "twice": how often it was normalized
    nm_out,       \* the result of each pass
    as_args,      \* build_chunk_docs: resource_id, segments, chunking
    as_pc,        \* "loop", "return"
    as_k,         \* segments consumed by the for loop
    as_pos,       \* its local pos
    as_docs,      \* its local docs
    as_first,     \* history: per segment consumed, pos before and docs added
    emb_lock,     \* _embedding_lock: "free" or the thread holding it
    emb_model,    \* _embedding_model: NoModel or a loaded handle
    emb_name,     \* _embedding_model_name
    emb_log,      \* history: the names of the loads that succeeded, in order
    e_pc,         \* per thread in get_embedding_model: "idle", "acquire",
                  \* "locked", "setname", "release", "return"
    e_name,       \* its local use_name
    e_held,       \* history: _embedding_model when it released the lock
    e_ret,        \* what its last call returned: a handle, NoModel, "raised"
    calls         \* calls of get_embedding_model so far (bounded by MaxCalls)

esVars == <<es_index, es_exists>>
handlerVars == <<h_pc, h_rid, h_docs, h_kind, h_status, h_error, h_warn, h_raced, h_before>>
redisVars == <<rs_stream, rs_group, rs_last, rs_pending>>
consumerVars == <<c_pc, c_batch, c_issued, c_deleted>>
pipeVars == <<esVars, handlerVars, redisVars, consumerVars, faults, restarts, requests>>
normVars == <<nm_text, nm_pc, nm_out>>
asmVars == <<as_args, as_pc, as_k, as_pos, as_docs, as_first>>
embVars == <<emb_lock, emb_model, emb_name, emb_log, e_pc, e_name, e_held, e_ret, calls>>
vars == <<chunkVars, normVars, asmVars, embVars, pipeVars>>

\* Whether the next call to an external service fails: any call may, while the
\* budget of failures lasts.
FaultChoice == IF faults < MaxFaults THEN {FALSE, TRUE} ELSE {FALSE}

\* h_before when the index did not already hold exactly the request's docs.
NoSnapshot == [index |-> EmptyIndex, exists |-> FALSE, taken |-> FALSE]

\* h_raced after an index operation on rid_str by `actor` (a handler, or
\* "consumer"): a replace that is between its delete and its bulk write has met
\* an operation on its own resource ("same") or on another one ("other").
Met(actor, rid_str) ==
    [g \in Handlers |->
        IF g = actor \/ h_pc[g] # "bulk" THEN h_raced[g]
        ELSE IF ToString(h_rid[g]) = rid_str THEN "same"
        ELSE IF h_raced[g] = "none" THEN "other"
        ELSE h_raced[g]]

\* ------------------------------- chunking.py: chunk_text_by_chars, stepwise
ChunkInit ==
    /\ ck_args \in [text : Texts, max_chars : MaxCharsSet, min_chars : MinCharsSet,
                    overlap_chars : OverlapSet, page_index : PageSet,
                    start_position : StartSet]
    /\ ck_pc = "call"
    /\ ck_t = <<>>
    /\ ck_i = 0
    /\ ck_pos = 0
    /\ ck_chunks = <<>>
    /\ ck_raw = <<>>

\* ChunkCall whose single chunk is numbered 0, whatever start_position is.
ChunkCall_position_zero ==
    /\ ck_pc = "call"
    /\ LET t == normalize_text(ck_args.text)
       IN  /\ ck_t' = t
           /\ IF t = <<>>
              THEN /\ ck_pc' = "return"
                   /\ ck_chunks' = <<>>
              ELSE IF Len(t) <= ck_args.max_chars
              THEN /\ ck_pc' = "return"
                   /\ ck_chunks' = <<Chunk(t, ck_args.page_index, 0)>>
              ELSE /\ ck_pc' = "loop"
                   /\ ck_chunks' = <<>>
    /\ ck_i' = 0
    /\ ck_pos' = ck_args.start_position
    /\ ck_raw' = ck_chunks'
    /\ UNCHANGED <<ck_args, normVars, asmVars, embVars, pipeVars>>

\* chunking.py 29-39: normalize, the two early returns, the loop's locals.
ChunkCall ==
    /\ ck_pc = "call"
    /\ LET t == normalize_text(ck_args.text)
       IN  /\ ck_t' = t
           /\ IF t = <<>>
              THEN /\ ck_pc' = "return"
                   /\ ck_chunks' = <<>>
              ELSE IF Len(t) <= ck_args.max_chars
              THEN /\ ck_pc' = "return"
                   /\ ck_chunks' = <<Chunk(t, ck_args.page_index, ck_args.start_position)>>
              ELSE /\ ck_pc' = "loop"
                   /\ ck_chunks' = <<>>
    /\ ck_i' = 0
    /\ ck_pos' = ck_args.start_position
    /\ ck_raw' = ck_chunks'
    /\ UNCHANGED <<ck_args, normVars, asmVars, embVars, pipeVars>>

\* chunking.py 41-49: one iteration of the sliding window.
ChunkLoop ==
    /\ ck_pc = "loop"
    /\ Len(ck_chunks) < MaxChunks
    /\ LET r == WindowStep(ck_t, ck_args.max_chars, ck_args.overlap_chars,
                           ck_args.page_index, ck_i, ck_pos, ck_chunks)
       IN  /\ ck_chunks' = r.chunks
           /\ ck_pos' = r.pos
           /\ ck_i' = r.i
           /\ ck_pc' = IF r.brk \/ ~(r.i < Len(ck_t)) THEN "tail" ELSE "loop"
           /\ ck_raw' = r.chunks
    /\ UNCHANGED <<ck_args, ck_t, normVars, asmVars, embVars, pipeVars>>

\* chunking.py 51-60: merge an undersized tail, return.
ChunkTail ==
    /\ ck_pc = "tail"
    /\ ck_chunks' = MergeTail(ck_chunks, ck_args.min_chars)
    /\ ck_pc' = "return"
    /\ UNCHANGED <<ck_args, ck_t, ck_i, ck_pos, ck_raw, normVars, asmVars, embVars, pipeVars>>

ChunkNext == ChunkCall \/ ChunkLoop \/ ChunkTail

\* ------------------------------------------- main.py: index_document, stage 3
\* A request arrives; its documents are assembled (main.py 329-340).
IndexRequest(h, resource_id, segments) ==
    /\ h_pc[h] = "idle"
    /\ requests < MaxRequests
    /\ requests' = requests + 1
    /\ h_pc' = [h_pc EXCEPT ![h] = "delete"]
    /\ h_rid' = [h_rid EXCEPT ![h] = resource_id]
    /\ h_docs' = [h_docs EXCEPT ![h] = RequestDocs[resource_id, segments]]
    /\ h_kind' = [h_kind EXCEPT ![h] = "document"]
    /\ h_status' = [h_status EXCEPT ![h] = "running"]
    /\ h_error' = [h_error EXCEPT ![h] = ""]
    /\ h_warn' = [h_warn EXCEPT ![h] = FALSE]
    /\ h_raced' = [h_raced EXCEPT ![h] = "none"]
    /\ h_before' = [h_before EXCEPT ![h] = NoSnapshot]
    /\ UNCHANGED <<chunkVars, normVars, asmVars, embVars, esVars, redisVars, consumerVars,
                   faults, restarts>>

\* main.py 365: delete_by_resource_id(req.resource_id); a raise is answered
\* with status failed, ES_INDEX_ERROR (main.py 367-375).
IndexDelete(h) ==
    /\ h_pc[h] = "delete"
    /\ \E unreachable \in FaultChoice :
         LET r       == delete_by_resource_id(es_index, es_exists, h_rid[h], unreachable)
             rid_str == ToString(h_rid[h])
             overlap == \E g \in Handlers \ {h} :
                            h_pc[g] = "bulk" /\ ToString(h_rid[g]) = rid_str
         IN  /\ es_index' = r.index
             /\ faults' = IF unreachable THEN faults + 1 ELSE faults
             /\ h_pc' = [h_pc EXCEPT ![h] = IF r.raised THEN "idle" ELSE "bulk"]
             /\ h_status' = [h_status EXCEPT ![h] = IF r.raised THEN "failed" ELSE @]
             /\ h_error' = [h_error EXCEPT ![h] = IF r.raised THEN "ES_INDEX_ERROR" ELSE @]
             /\ h_raced' = IF r.raised THEN h_raced
                           ELSE [Met(h, rid_str) EXCEPT ![h] = IF overlap THEN "same" ELSE @]
             /\ h_before' = [h_before EXCEPT ![h] =
                    IF ~r.raised /\ EntriesOf(es_index, rid_str) = BagOfSeq(h_docs[h])
                    THEN [index |-> es_index, exists |-> es_exists, taken |-> TRUE]
                    ELSE NoSnapshot]
    /\ UNCHANGED <<chunkVars, normVars, asmVars, embVars, es_exists, h_rid, h_docs, h_kind,
                   h_warn, redisVars, consumerVars, restarts, requests>>

\* main.py 366: bulk_index(INDEX_NAME, docs), then the response (main.py 367-389).
IndexBulk(h) ==
    /\ h_pc[h] = "bulk"
    /\ \E unreachable \in FaultChoice :
         LET r == bulk_index(es_index, es_exists, h_docs[h], unreachable)
         IN  /\ es_index' = r.index
             /\ es_exists' = r.exists
             /\ faults' = IF r.raised THEN faults + 1 ELSE faults
             /\ h_status' = [h_status EXCEPT ![h] =
                                IF r.raised THEN "failed"
                                ELSE IF h_warn[h] THEN "completed_with_warnings"
                                ELSE "completed"]
             /\ h_error' = [h_error EXCEPT ![h] = IF r.raised THEN "ES_INDEX_ERROR" ELSE @]
             /\ h_raced' = IF r.raised \/ h_docs[h] = <<>> THEN h_raced
                           ELSE Met(h, ToString(h_rid[h]))
    /\ h_pc' = [h_pc EXCEPT ![h] = "idle"]
    /\ UNCHANGED <<chunkVars, normVars, asmVars, embVars, h_rid, h_docs, h_kind, h_warn,
                   h_before, redisVars, consumerVars, restarts, requests>>

\* --------------------------------------------- the outbox stream's entries
\* The resource_id member of a payload: absent (or null), a JSON number, a
\* string of digits, or a string int() cannot parse.
RidAbsent == [tag |-> "absent", num |-> 0]
RidInt(n) == [tag |-> "int", num |-> n]
RidStr(n) == [tag |-> "digits", num |-> n]
RidText == [tag |-> "text", num |-> 0]

\* An entry's fields: event_type, and payload, which is a JSON object or is not.
Event(event_type, is_object, rid) ==
    [event_type |-> event_type, is_object |-> is_object, resource_id |-> rid]

DeletedEvents ==
    { Event("RESOURCE_DELETED", TRUE, RidInt(1)),
      Event("RESOURCE_DELETED", TRUE, RidStr(2)) }

Events ==
    DeletedEvents \cup
    { Event("RESOURCE_DELETED", TRUE, RidAbsent),
      Event("RESOURCE_DELETED", FALSE, RidAbsent),
      Event("RESOURCE_DELETED", TRUE, RidText),
      Event("RESOURCE_UPDATED", TRUE, RidInt(1)) }

\* xreadgroup(count=10)
ReadCount == 10

\* Decode without the test of event_type.
Decode_any_type(e) ==
    IF ~e.is_object THEN "raise"
    ELSE IF e.resource_id.tag = "absent" THEN "skip"
    ELSE IF e.resource_id.tag = "text" THEN "raise"
    ELSE "delete"

\* What main.py 187-193 does with an entry: "delete" (call
\* delete_by_resource_id), "skip" (go on to xack) or "raise" (json.loads, .get
\* or int() raises).
Decode(e) ==
    IF e.event_type # "RESOURCE_DELETED" THEN "skip"
    ELSE IF ~e.is_object THEN "raise"
    ELSE IF e.resource_id.tag = "absent" THEN "skip"
    ELSE IF e.resource_id.tag = "text" THEN "raise"
    ELSE "delete"

\* The upstream system appends an entry to the stream.
Publish(e) ==
    /\ Len(rs_stream) < MaxStream
    /\ rs_stream' = Append(rs_stream, e)
    /\ UNCHANGED <<chunkVars, normVars, asmVars, embVars,
                   esVars, handlerVars, rs_group, rs_last, rs_pending,
                   consumerVars, faults, restarts, requests>>

\* ------------------------------------------ main.py: consume_outbox_events
\* main.py 165-171 with ensure_outbox_group (125-135), before the loop and
\* outside its try: xgroup_create(id="0", mkstream=True); BUSYGROUP is
\* swallowed, any other RedisError ends the thread.
ConsumerSetup ==
    /\ c_pc = "setup"
    /\ \E unreachable \in FaultChoice :
         /\ faults' = IF unreachable THEN faults + 1 ELSE faults
         /\ c_pc' = IF unreachable THEN "dead" ELSE "poll"
         /\ rs_group' = (rs_group \/ ~unreachable)
         /\ rs_last' = IF rs_group \/ unreachable THEN rs_last ELSE 0
    /\ c_batch' = <<>>
    /\ UNCHANGED <<chunkVars, normVars, asmVars, embVars,
                   esVars, handlerVars, rs_stream, rs_pending,
                   c_issued, c_deleted, restarts, requests>>

\* main.py 175-183: xreadgroup(streams={key: ">"}, count=10, block=5000) hands
\* out the entries after the group's last-delivered id, never a pending one,
\* and records them as pending. A RedisError goes to the handler (197-199).
ConsumerPoll ==
    /\ c_pc = "poll"
    /\ \E unreachable \in FaultChoice :
         LET hi  == Min(Len(rs_stream), rs_last + ReadCount)
             new == [k \in 1..(hi - rs_last) |-> rs_last + k]
         IN  /\ faults' = IF unreachable THEN faults + 1 ELSE faults
             /\ IF unreachable
                THEN /\ c_pc' = "sleep"
                     /\ UNCHANGED <<rs_last, rs_pending, c_batch>>
                ELSE /\ c_pc' = IF new = <<>> THEN "poll" ELSE "decode"
                     /\ c_batch' = new
                     /\ rs_last' = hi
                     /\ rs_pending' = rs_pending \cup {new[k] : k \in 1..Len(new)}
    /\ UNCHANGED <<chunkVars, normVars, asmVars, embVars, esVars, handlerVars, rs_stream, rs_group,
                   c_issued, c_deleted, restarts, requests>>

\* main.py 187-193: look at the entry at the head of the batch.
ConsumerDecode ==
    /\ c_pc = "decode"
    /\ c_pc' = CASE Decode(rs_stream[Head(c_batch)]) = "delete" -> "delete"
                 [] Decode(rs_stream[Head(c_batch)]) = "skip" -> "ack"
                 [] OTHER -> "sleep"
    /\ UNCHANGED <<chunkVars, normVars, asmVars, embVars, esVars, handlerVars, redisVars, c_batch,
                   c_issued, c_deleted, faults, restarts, requests>>

\* Variant of ConsumerDelete that goes on to xack when the delete raised.
ConsumerDelete_swallow ==
    /\ c_pc = "delete"
    /\ \E unreachable \in FaultChoice :
         LET m == Head(c_batch)
             resource_id == rs_stream[m].resource_id.num
             r == delete_by_resource_id(es_index, es_exists, resource_id, unreachable)
         IN  /\ es_index' = r.index
             /\ faults' = IF unreachable THEN faults + 1 ELSE faults
             /\ c_pc' = "ack"
             /\ c_issued' = c_issued \cup {m}
             /\ c_deleted' = IF r.raised THEN c_deleted ELSE c_deleted \cup {m}
             /\ h_raced' = IF r.raised THEN h_raced
                           ELSE Met("consumer", ToString(resource_id))
    /\ UNCHANGED <<chunkVars, normVars, asmVars, embVars, es_exists, h_pc, h_rid, h_docs,
                   h_kind, h_status, h_error, h_warn, h_before, redisVars, c_batch,
                   restarts, requests>>

\* main.py 194: delete_by_resource_id(int(resource_id)); a raise goes to the
\* handler (200-202), past the xack.
ConsumerDelete ==
    /\ c_pc = "delete"
    /\ \E unreachable \in FaultChoice :
         LET m == Head(c_batch)
             resource_id == rs_stream[m].resource_id.num
             r == delete_by_resource_id(es_index, es_exists, resource_id, unreachable)
         IN  /\ es_index' = r.index
             /\ faults' = IF unreachable THEN faults + 1 ELSE faults
             /\ c_pc' = IF r.raised THEN "sleep" ELSE "ack"
             /\ c_issued' = c_issued \cup {m}
             /\ c_deleted' = IF r.raised THEN c_deleted ELSE c_deleted \cup {m}
             /\ h_raced' = IF r.raised THEN h_raced
                           ELSE Met("consumer", ToString(resource_id))
    /\ UNCHANGED <<chunkVars, normVars, asmVars, embVars, es_exists, h_pc, h_rid, h_docs,
                   h_kind, h_status, h_error, h_warn, h_before, redisVars, c_batch,
                   restarts, requests>>

\* main.py 196: xack(message_id), then the next entry of the batch, or the next
\* read. A RedisError goes to the handler (197-199).
ConsumerAck ==
    /\ c_pc = "ack"
    /\ \E unreachable \in FaultChoice :
         /\ faults' = IF unreachable THEN faults + 1 ELSE faults
         /\ IF unreachable
            THEN /\ c_pc' = "sleep"
                 /\ UNCHANGED <<rs_pending, c_batch>>
            ELSE /\ rs_pending' = rs_pending \ {Head(c_batch)}
                 /\ c_batch' = Tail(c_batch)
                 /\ c_pc' = IF Tail(c_batch) = <<>> THEN "poll" ELSE "decode"
    /\ UNCHANGED <<chunkVars, normVars, asmVars, embVars,
                   esVars, handlerVars, rs_stream, rs_group, rs_last,
                   c_issued, c_deleted, restarts, requests>>

\* main.py 197-202: the error is printed, time.sleep(1), and the loop reads
\* again; the rest of the batch is dropped with the loop's locals.
ConsumerSleep ==
    /\ c_pc = "sleep"
    /\ c_pc' = "poll"
    /\ c_batch' = <<>>
    /\ UNCHANGED <<chunkVars, normVars, asmVars, embVars,
                   esVars, handlerVars, redisVars, c_issued, c_deleted,
                   faults, restarts, requests>>

\* The process is stopped and started again (main.py 261-264 starts the
\* consumer thread anew); the stream and the index keep their state.
Restart ==
    /\ restarts < MaxRestarts
    /\ restarts' = restarts + 1
    /\ c_pc' = "setup"
    /\ c_batch' = <<>>
    /\ h_pc' = [h \in Handlers |-> "idle"]
    /\ h_status' = [h \in Handlers |-> IF h_pc[h] = "idle" THEN h_status[h] ELSE "none"]
    /\ UNCHANGED <<chunkVars, normVars, asmVars, embVars, esVars, h_rid, h_docs, h_kind,
                   h_error, h_warn, h_raced, h_before, redisVars, c_issued, c_deleted,
                   faults, requests>>

Consumer ==
    \/ ConsumerSetup
    \/ ConsumerPoll
    \/ ConsumerDecode
    \/ ConsumerDelete
    \/ ConsumerAck
    \/ ConsumerSleep

\* ------------------------- main.py: the routes index_document, index_link, embed
\* chunking.py 41-49 leaves the loop: a run that ends passes each window start
\* once, so it takes at most Len(t) further passes.
RECURSIVE WindowsEnd(_, _, _, _, _)
WindowsEnd(t, max_chars, overlap_chars, i, fuel) ==
    LET r == WindowStep(t, max_chars, overlap_chars, NoPage, i, 0, <<>>)
    IN  IF r.brk \/ ~(r.i < Len(t)) THEN TRUE
        ELSE IF fuel = 0 THEN FALSE
        ELSE WindowsEnd(t, max_chars, overlap_chars, r.i, fuel - 1)

\* chunk_text_by_chars returns on this text (chunking.py 29-60).
ChunkerReturns(text, chunking) ==
    LET t == normalize_text(text)
    IN  \/ t = <<>>
        \/ Len(t) <= chunking.max_chars
        \/ WindowsEnd(t, chunking.max_chars, chunking.overlap_chars, 0, Len(t))

\* Options under which the window of a text longer than max_chars never
\* advances (ChunkingOptions takes any integers, main.py 41-44).
StuckChunking == [max_chars |-> 1, min_chars |-> 0, overlap_chars |-> 1]

\* The mime types index_document extracts (main.py 284-307).
SupportedMime == {"application/pdf", "text/plain"}

\* A document as the extractors see it: its mime type, whether the extractor
\* raises on it, the segments it yields and whether it yields warnings.
Document(mime, readable, segments, warned) ==
    [mime |-> mime, readable |-> readable, segments |-> segments, warned |-> warned]

\* The index_document requests explored: a two-page PDF, a scanned PDF (no
\* text, a warning), a text file, a blank text file, a file that cannot be
\* read, a format that is not supported, and a request whose chunking options
\* stall the chunker.
DocumentRequests ==
    { [resource_id |-> 1, chunking |-> RequestChunking, enabled |-> TRUE,
       document |-> Document("application/pdf", TRUE,
                             <<Segment(0, <<"a">>), Segment(1, <<"b", "b", "b">>)>>, FALSE)],
      [resource_id |-> 2, chunking |-> RequestChunking, enabled |-> TRUE,
       document |-> Document("application/pdf", TRUE, <<Segment(0, <<>>)>>, TRUE)],
      [resource_id |-> 1, chunking |-> RequestChunking, enabled |-> FALSE,
       document |-> Document("text/plain", TRUE, <<Segment(NoPage, <<"a">>)>>, TRUE)],
      [resource_id |-> 2, chunking |-> RequestChunking, enabled |-> FALSE,
       document |-> Document("text/plain", TRUE, <<Segment(NoPage, <<SP>>)>>, FALSE)],
      [resource_id |-> 1, chunking |-> RequestChunking, enabled |-> FALSE,
       document |-> Document("text/plain", FALSE, <<>>, FALSE)],
      [resource_id |-> 1, chunking |-> RequestChunking, enabled |-> FALSE,
       document |-> Document("image/png", TRUE, <<>>, FALSE)],
      [resource_id |-> 1, chunking |-> StuckChunking, enabled |-> FALSE,
       document |-> Document("text/plain", TRUE, <<Segment(NoPage, <<"a", "a">>)>>, FALSE)] }

\* Where index_document leaves its stages 1 and 2 and the embedding (main.py
\* 280-361): an error code it answers with, "hung" (build_chunk_docs, called
\* outside any try, does not return), or "index" (it goes on to stage 3).
DocumentStage(req, embed_raises) ==
    IF req.document.mime \notin SupportedMime THEN "UNSUPPORTED_FORMAT"
    ELSE IF ~req.document.readable THEN "EXTRACT_ERROR"
    ELSE IF \E k \in 1..Len(req.document.segments) :
                ~ChunkerReturns(req.document.segments[k].text, req.chunking) THEN "hung"
    ELSE IF /\ req.enabled
            /\ build_chunk_docs(req.resource_id, req.document.segments, req.chunking) # <<>>
            /\ embed_raises THEN "EMBEDDING_ERROR"
    ELSE "index"

\* index_document that deletes the resource's entries before it extracts,
\* chunks and embeds.
DocumentRequest_delete_first(h, req) ==
    /\ h_pc[h] = "idle"
    /\ requests < MaxRequests
    /\ requests' = requests + 1
    /\ \E embed_raises \in FaultChoice :
         LET stage == DocumentStage(req, embed_raises)
         IN  /\ embed_raises => stage = "EMBEDDING_ERROR"
             /\ faults' = IF embed_raises THEN faults + 1 ELSE faults
             /\ h_pc' = [h_pc EXCEPT ![h] = CASE stage = "index" -> "delete"
                                              [] stage = "hung" -> "hung"
                                              [] OTHER -> "idle"]
             /\ h_status' = [h_status EXCEPT ![h] = CASE stage = "index" -> "running"
                                                      [] stage = "hung" -> "hung"
                                                      [] OTHER -> "failed"]
             /\ h_error' = [h_error EXCEPT ![h] =
                               IF stage \in {"index", "hung"} THEN "" ELSE stage]
             /\ h_docs' = [h_docs EXCEPT ![h] =
                              IF stage = "index"
                              THEN build_chunk_docs(req.resource_id, req.document.segments,
                                                    req.chunking)
                              ELSE <<>>]
    /\ h_kind' = [h_kind EXCEPT ![h] = "document"]
    /\ h_rid' = [h_rid EXCEPT ![h] = req.resource_id]
    /\ h_warn' = [h_warn EXCEPT ![h] = req.document.readable /\ req.document.warned]
    /\ h_raced' = [h_raced EXCEPT ![h] = "none"]
    /\ h_before' = [h_before EXCEPT ![h] = NoSnapshot]
    /\ es_index' = delete_by_resource_id(es_index, es_exists, req.resource_id, FALSE).index
    /\ UNCHANGED <<chunkVars, normVars, asmVars, embVars, es_exists, redisVars,
                   consumerVars, restarts>>

\* main.py 272-361: index_document up to stage 3. embed_texts raises when the
\* model cannot be loaded or the vectors have another width than expected.
DocumentRequest(h, req) ==
    /\ h_pc[h] = "idle"
    /\ requests < MaxRequests
    /\ requests' = requests + 1
    /\ \E embed_raises \in FaultChoice :
         LET stage == DocumentStage(req, embed_raises)
         IN  /\ embed_raises => stage = "EMBEDDING_ERROR"
             /\ faults' = IF embed_raises THEN faults + 1 ELSE faults
             /\ h_pc' = [h_pc EXCEPT ![h] = CASE stage = "index" -> "delete"
                                              [] stage = "hung" -> "hung"
                                              [] OTHER -> "idle"]
             /\ h_status' = [h_status EXCEPT ![h] = CASE stage = "index" -> "running"
                                                      [] stage = "hung" -> "hung"
                                                      [] OTHER -> "failed"]
             /\ h_error' = [h_error EXCEPT ![h] =
                               IF stage \in {"index", "hung"} THEN "" ELSE stage]
             /\ h_docs' = [h_docs EXCEPT ![h] =
                              IF stage = "index"
                              THEN build_chunk_docs(req.resource_id, req.document.segments,
                                                    req.chunking)
                              ELSE <<>>]
    /\ h_kind' = [h_kind EXCEPT ![h] = "document"]
    /\ h_rid' = [h_rid EXCEPT ![h] = req.resource_id]
    /\ h_warn' = [h_warn EXCEPT ![h] = req.document.readable /\ req.document.warned]
    /\ h_raced' = [h_raced EXCEPT ![h] = "none"]
    /\ h_before' = [h_before EXCEPT ![h] = NoSnapshot]
    /\ UNCHANGED <<chunkVars, normVars, asmVars, embVars, esVars, redisVars, consumerVars,
                   restarts>>

\* link.get("title"), link.get("memo") of an index_link request: a string, or
\* a JSON value that is not one (link is Dict[str, Any], main.py 98).
LinkText(s) == [is_str |-> TRUE, text |-> s]
NotAString == [is_str |-> FALSE, text |-> <<>>]

LinkRequests ==
    { [resource_id |-> 1, enabled |-> TRUE, title |-> LinkText(<<SP, "a">>),
       memo |-> LinkText(<<"b">>)],
      [resource_id |-> 2, enabled |-> FALSE, title |-> LinkText(<<SP>>),
       memo |-> LinkText(<<>>)],
      [resource_id |-> 1, enabled |-> FALSE, title |-> NotAString,
       memo |-> LinkText(<<>>)] }

\* main.py 417-425 with no tags: " ".join([title, memo, ""]).strip(), normalized.
LinkChunkText(req) ==
    normalize_text(Strip(Strip(req.title.text) \o <<SP>> \o Strip(req.memo.text) \o <<SP>>))

\* Where index_link leaves main.py 412-468: "unhandled" (.strip() of a value
\* that is not a string raises outside any try), an error code, or "index".
LinkStage(req, embed_raises) ==
    IF ~req.title.is_str \/ ~req.memo.is_str THEN "unhandled"
    ELSE IF LinkChunkText(req) = <<>> THEN "EMPTY_TEXT"
    ELSE IF req.enabled /\ embed_raises THEN "EMBEDDING_ERROR"
    ELSE "index"

\* main.py 412-468: index_link up to the delete and bulk write.
LinkRequest(h, req) ==
    /\ h_pc[h] = "idle"
    /\ requests < MaxRequests
    /\ requests' = requests + 1
    /\ \E embed_raises \in FaultChoice :
         LET stage == LinkStage(req, embed_raises)
         IN  /\ embed_raises => stage = "EMBEDDING_ERROR"
             /\ faults' = IF embed_raises THEN faults + 1 ELSE faults
             /\ h_pc' = [h_pc EXCEPT ![h] = IF stage = "index" THEN "delete" ELSE "idle"]
             /\ h_status' = [h_status EXCEPT ![h] = CASE stage = "index" -> "running"
                                                      [] stage = "unhandled" -> "unhandled"
                                                      [] OTHER -> "failed"]
             /\ h_error' = [h_error EXCEPT ![h] =
                               IF stage \in {"index", "unhandled"} THEN "" ELSE stage]
             /\ h_docs' = [h_docs EXCEPT ![h] =
                              IF stage = "index"
                              THEN <<Doc(req.resource_id, Chunk(LinkChunkText(req), NoPage, 0))>>
                              ELSE <<>>]
    /\ h_kind' = [h_kind EXCEPT ![h] = "link"]
    /\ h_rid' = [h_rid EXCEPT ![h] = req.resource_id]
    /\ h_warn' = [h_warn EXCEPT ![h] = FALSE]
    /\ h_raced' = [h_raced EXCEPT ![h] = "none"]
    /\ h_before' = [h_before EXCEPT ![h] = NoSnapshot]
    /\ UNCHANGED <<chunkVars, normVars, asmVars, embVars, esVars, redisVars, consumerVars,
                   restarts>>

\* main.py 392-409: embed. No texts: {"embeddings": []}. Otherwise embed_texts
\* is called outside any try: what it raises leaves the handler; what it
\* returns is answered with {"embeddings", "model", "dim"}.
EmbedRequest(h, texts) ==
    /\ h_pc[h] = "idle"
    /\ requests < MaxRequests
    /\ requests' = requests + 1
    /\ \E embed_raises \in FaultChoice :
         /\ embed_raises => texts # <<>>
         /\ faults' = IF embed_raises THEN faults + 1 ELSE faults
         /\ h_status' = [h_status EXCEPT ![h] =
                            IF embed_raises THEN "unhandled" ELSE "answered"]
    /\ h_kind' = [h_kind EXCEPT ![h] = "embed"]
    /\ h_error' = [h_error EXCEPT ![h] = ""]
    /\ h_docs' = [h_docs EXCEPT ![h] = <<>>]
    /\ h_warn' = [h_warn EXCEPT ![h] = FALSE]
    /\ UNCHANGED <<chunkVars, normVars, asmVars, embVars, esVars, h_pc, h_rid, h_raced,
                   h_before, redisVars, consumerVars, restarts>>

\* The texts of the embed requests explored: none, one.
EmbedTexts == { <<>>, << <<"a">> >> }

\* -------------------------- chunking.py: normalize_text, applied once and again
NormAlphabet == {"a", SP, NL, CR}
NormTexts == UNION {[1..k -> NormAlphabet] : k \in 0..MaxLen}

NormInit ==
    /\ nm_text \in NormTexts
    /\ nm_pc = "call"
    /\ nm_out = <<>>

\* normalize_text(x)
NormFirst ==
    /\ nm_pc = "call"
    /\ nm_out' = <<normalize_text(nm_text)>>
    /\ nm_pc' = "once"
    /\ UNCHANGED <<nm_text, chunkVars, asmVars, embVars, pipeVars>>

\* normalize_text applied to the result of the first call
NormSecond ==
    /\ nm_pc = "once"
    /\ nm_out' = Append(nm_out, normalize_text(nm_out[1]))
    /\ nm_pc' = "twice"
    /\ UNCHANGED <<nm_text, chunkVars, asmVars, embVars, pipeVars>>

NormNext == NormFirst \/ NormSecond

\* ----------------------------------------- main.py: build_chunk_docs, stepwise
\* The segment texts and chunking options explored: an empty and a blank
\* segment, texts of one and of several chunks, a tail that is merged. Every
\* option set makes the chunker return.
AsmTexts == { <<>>, <<SP>>, <<"a">>, <<"a", "a", "a">>, <<"a", SP, "a">> }
AsmChunkings ==
    { [max_chars |-> 2, min_chars |-> 1, overlap_chars |-> 0],
      [max_chars |-> 2, min_chars |-> 2, overlap_chars |-> 0],
      [max_chars |-> 1, min_chars |-> 0, overlap_chars |-> 0],
      [max_chars |-> 2, min_chars |-> 0, overlap_chars |-> 1] }

\* The segments of a document: those of a PDF or PPTX carry their index
\* (main.py 287, 299), a DOCX or text file is one segment without page_index.
AsmSegmentLists ==
    { [k \in 1..n |-> Segment(k - 1, texts[k])] :
          n \in 0..MaxSegments, texts \in [1..MaxSegments -> AsmTexts] }
    \cup { <<Segment(NoPage, x)>> : x \in AsmTexts }

AsmInit ==
    /\ as_args \in [resource_id : {1}, segments : AsmSegmentLists, chunking : AsmChunkings]
    /\ as_pc = "loop"
    /\ as_k = 0
    /\ as_pos = 0
    /\ as_docs = <<>>
    /\ as_first = <<>>

\* main.py 226-253: one segment is chunked, its docs appended, pos advanced.
AsmSegment ==
    /\ as_pc = "loop"
    /\ as_k < Len(as_args.segments)
    /\ LET r == AssembleStep(as_args.resource_id, as_args.segments[as_k + 1],
                             as_args.chunking, as_pos)
       IN  /\ as_docs' = as_docs \o r.docs
           /\ as_pos' = r.pos
           /\ as_first' = Append(as_first, [pos |-> as_pos, count |-> Len(r.docs)])
    /\ as_k' = as_k + 1
    /\ UNCHANGED <<as_args, as_pc, chunkVars, normVars, embVars, pipeVars>>

\* main.py 255: return docs, warnings
AsmReturn ==
    /\ as_pc = "loop"
    /\ as_k = Len(as_args.segments)
    /\ as_pc' = "return"
    /\ UNCHANGED <<as_args, as_k, as_pos, as_docs, as_first, chunkVars, normVars,
                   embVars, pipeVars>>

AsmNext == AsmSegment \/ AsmReturn

\* ------------------------------------------- main.py: get_embedding_model
\* EMBEDDING_MODEL (main.py 33), and the model names callers pass: none, or
\* the name of another model.
EMBEDDING_MODEL_NAME == "dragonkue/BGE-m3-ko"
NoName == ""
ModelArgs == {NoName, "other-model"}

\* A loaded model: the name it was loaded for and which load produced it.
Handle(name, load) == [name |-> name, load |-> load]
\* _embedding_model = None
NoModel == Handle("", 0)
\* e_ret of a call that raised
Raised == Handle("", -1)

\* The test of main.py 147, with every name asked for answered by a load.
NeedsLoad_always(model, name, use_name) == TRUE

\* main.py 147: _embedding_model is None or _embedding_model_name != use_name
NeedsLoad(model, name, use_name) == model = NoModel \/ name # use_name

\* main.py 143-145: a thread calls get_embedding_model(model_name).
GetModelCall(t, model_name) ==
    /\ e_pc[t] = "idle"
    /\ calls < MaxCalls
    /\ calls' = calls + 1
    /\ e_name' = [e_name EXCEPT ![t] =
                     IF model_name = NoName THEN EMBEDDING_MODEL_NAME ELSE model_name]
    /\ e_pc' = [e_pc EXCEPT ![t] = "acquire"]
    /\ e_held' = [e_held EXCEPT ![t] = NoModel]
    /\ e_ret' = [e_ret EXCEPT ![t] = NoModel]
    /\ UNCHANGED <<emb_lock, emb_model, emb_name, emb_log, chunkVars, normVars,
                   asmVars, pipeVars>>

\* main.py 146: with _embedding_lock, entered
EmbAcquire(t) ==
    /\ e_pc[t] = "acquire"
    /\ emb_lock = "free"
    /\ emb_lock' = t
    /\ e_pc' = [e_pc EXCEPT ![t] = "locked"]
    /\ UNCHANGED <<emb_model, emb_name, emb_log, e_name, e_held, e_ret, calls,
                   chunkVars, normVars, asmVars, pipeVars>>

\* main.py 147-148: the test, and SentenceTransformer(use_name) when it holds.
\* A load that raises leaves the with block, which releases the lock, and the
\* call.
EmbLoad(t) ==
    /\ e_pc[t] = "locked"
    /\ \E unreachable \in FaultChoice :
         LET load   == NeedsLoad(emb_model, emb_name, e_name[t])
             raised == load /\ unreachable
         IN  /\ unreachable => load
             /\ faults' = IF raised THEN faults + 1 ELSE faults
             /\ emb_model' = IF load /\ ~raised
                             THEN Handle(e_name[t], Len(emb_log) + 1) ELSE emb_model
             /\ emb_log' = IF load /\ ~raised THEN Append(emb_log, e_name[t]) ELSE emb_log
             /\ emb_lock' = IF raised THEN "free" ELSE emb_lock
             /\ e_pc' = [e_pc EXCEPT ![t] = IF raised THEN "idle"
                                            ELSE IF load THEN "setname" ELSE "release"]
             /\ e_ret' = [e_ret EXCEPT ![t] = IF raised THEN Raised ELSE @]
    /\ UNCHANGED <<emb_name, e_name, e_held, calls, chunkVars, normVars, asmVars,
                   esVars, handlerVars, redisVars, consumerVars, restarts, requests>>

\* main.py 149: _embedding_model_name = use_name
EmbSetName(t) ==
    /\ e_pc[t] = "setname"
    /\ emb_name' = e_name[t]
    /\ e_pc' = [e_pc EXCEPT ![t] = "release"]
    /\ UNCHANGED <<emb_lock, emb_model, emb_log, e_name, e_held, e_ret, calls,
                   chunkVars, normVars, asmVars, pipeVars>>

\* The end of the with block: the lock is released.
EmbRelease(t) ==
    /\ e_pc[t] = "release"
    /\ emb_lock' = "free"
    /\ e_held' = [e_held EXCEPT ![t] = emb_model]
    /\ e_pc' = [e_pc EXCEPT ![t] = "return"]
    /\ UNCHANGED <<emb_model, emb_name, emb_log, e_name, e_ret, calls,
                   chunkVars, normVars, asmVars, pipeVars>>

\* main.py 150: return _embedding_model, the global read after the lock was
\* released.
EmbReturn(t) ==
    /\ e_pc[t] = "return"
    /\ e_ret' = [e_ret EXCEPT ![t] = emb_model]
    /\ e_pc' = [e_pc EXCEPT ![t] = "idle"]
    /\ UNCHANGED <<emb_lock, emb_model, emb_name, emb_log, e_name, e_held, calls,
                   chunkVars, normVars, asmVars, pipeVars>>

EmbNext ==
    \/ \E t \in Handlers, model_name \in ModelArgs : GetModelCall(t, model_name)
    \/ \E t \in Handlers : EmbAcquire(t)
    \/ \E t \in Handlers : EmbLoad(t)
    \/ \E t \in Handlers : EmbSetName(t)
    \/ \E t \in Handlers : EmbRelease(t)
    \/ \E t \in Handlers : EmbReturn(t)

\* ------------------------------------------------------- specifications
NormIdle ==
    /\ nm_text = <<>>
    /\ nm_pc = "idle"
    /\ nm_out = <<>>

AsmIdle ==
    /\ as_args = [resource_id |-> 1, segments |-> <<>>, chunking |-> RequestChunking]
    /\ as_pc = "return"
    /\ as_k = 0
    /\ as_pos = 0
    /\ as_docs = <<>>
    /\ as_first = <<>>

\* The process after startup: no model loaded, the lock free.
EmbInit ==
    /\ emb_lock = "free"
    /\ emb_model = NoModel
    /\ emb_name = NoName
    /\ emb_log = <<>>
    /\ e_pc = [t \in Handlers |-> "idle"]
    /\ e_name = [t \in Handlers |-> NoName]
    /\ e_held = [t \in Handlers |-> NoModel]
    /\ e_ret = [t \in Handlers |-> NoModel]
    /\ calls = 0

ChunkIdle ==
    /\ ck_args = [text |-> <<>>, max_chars |-> 1, min_chars |-> 0, overlap_chars |-> 0,
                  page_index |-> NoPage, start_position |-> 0]
    /\ ck_pc = "return"
    /\ ck_t = <<>>
    /\ ck_i = 0
    /\ ck_pos = 0
    /\ ck_chunks = <<>>
    /\ ck_raw = <<>>

\* The worker after startup: nothing indexed, the stream empty, no group.
PipeInit ==
    /\ es_index = EmptyIndex
    /\ es_exists = FALSE
    /\ h_pc = [h \in Handlers |-> "idle"]
    /\ h_rid = [h \in Handlers |-> 1]
    /\ h_docs = [h \in Handlers |-> <<>>]
    /\ h_kind = [h \in Handlers |-> "none"]
    /\ h_status = [h \in Handlers |-> "none"]
    /\ h_error = [h \in Handlers |-> ""]
    /\ h_warn = [h \in Handlers |-> FALSE]
    /\ h_raced = [h \in Handlers |-> "none"]
    /\ h_before = [h \in Handlers |-> NoSnapshot]
    /\ rs_stream = <<>>
    /\ rs_group = FALSE
    /\ rs_last = 0
    /\ rs_pending = {}
    /\ c_pc = "setup"
    /\ c_batch = <<>>
    /\ c_issued = {}
    /\ c_deleted = {}
    /\ faults = 0
    /\ restarts = 0
    /\ requests = 0

\* Index contents left by earlier, completed indexing calls.
SeededIndexes ==
    { BagOfSeq(build_chunk_docs(1, <<Segment(NoPage, <<"a">>)>>, RequestChunking)),
      BagSum(BagOfSeq(build_chunk_docs(1, <<Segment(NoPage, <<"a">>)>>, RequestChunking)),
             BagOfSeq(build_chunk_docs(2, <<Segment(0, <<"b", "b", "b">>)>>, RequestChunking))) }

\* The worker started over an index that earlier indexing calls filled, or
\* that was never created.
OutboxInit ==
    /\ \/ es_index = EmptyIndex /\ es_exists = FALSE
       \/ es_index \in SeededIndexes /\ es_exists = TRUE
    /\ h_pc = [h \in Handlers |-> "idle"]
    /\ h_rid = [h \in Handlers |-> 1]
    /\ h_docs = [h \in Handlers |-> <<>>]
    /\ h_kind = [h \in Handlers |-> "none"]
    /\ h_status = [h \in Handlers |-> "none"]
    /\ h_error = [h \in Handlers |-> ""]
    /\ h_warn = [h \in Handlers |-> FALSE]
    /\ h_raced = [h \in Handlers |-> "none"]
    /\ h_before = [h \in Handlers |-> NoSnapshot]
    /\ rs_stream = <<>>
    /\ rs_group = FALSE
    /\ rs_last = 0
    /\ rs_pending = {}
    /\ c_pc = "setup"
    /\ c_batch = <<>>
    /\ c_issued = {}
    /\ c_deleted = {}
    /\ faults = 0
    /\ restarts = 0
    /\ requests = 0

\* The chunker alone, on every text and configuration within the bounds.
ChunkSpecInit == ChunkInit /\ NormIdle /\ AsmIdle /\ EmbInit /\ PipeInit

ChunkSpec == ChunkSpecInit /\ [][ChunkNext]_vars

\* Request handlers, the consumer and the upstream publishing deletions.
Next ==
    \/ \E h \in Handlers, resource_id \in Rids, segments \in RequestSegments :
           IndexRequest(h, resource_id, segments)
    \/ \E h \in Handlers : IndexDelete(h)
    \/ \E h \in Handlers : IndexBulk(h)
    \/ \E e \in DeletedEvents : Len(rs_stream) < MaxDeletions /\ Publish(e)
    \/ Consumer

Init == ChunkIdle /\ NormIdle /\ AsmIdle /\ EmbInit /\ PipeInit

Spec == Init /\ [][Next]_vars

\* The consumer over a stream of well-formed and malformed entries, with
\* failing calls and a restart.
OutboxNext ==
    \/ \E e \in Events : Publish(e)
    \/ Consumer
    \/ Restart

OutboxSpecInit == ChunkIdle /\ NormIdle /\ AsmIdle /\ EmbInit /\ OutboxInit

OutboxSpec == OutboxSpecInit /\ [][OutboxNext]_vars

\* The consumer thread is scheduled for as long as it has a step to take.
OutboxFairSpec == OutboxSpec /\ WF_vars(Consumer)

\* The three routes over an index that earlier calls filled or that was never
\* created, with failing calls.
RequestNext ==
    \/ \E h \in Handlers, req \in DocumentRequests : DocumentRequest(h, req)
    \/ \E h \in Handlers, req \in LinkRequests : LinkRequest(h, req)
    \/ \E h \in Handlers, texts \in EmbedTexts : EmbedRequest(h, texts)
    \/ \E h \in Handlers : IndexDelete(h)
    \/ \E h \in Handlers : IndexBulk(h)

RequestSpecInit == ChunkIdle /\ NormIdle /\ AsmIdle /\ EmbInit /\ OutboxInit

RequestSpec == RequestSpecInit /\ [][RequestNext]_vars

\* normalize_text alone, on every text within the bounds.
NormSpecInit == ChunkIdle /\ NormInit /\ AsmIdle /\ EmbInit /\ PipeInit

NormSpec == NormSpecInit /\ [][NormNext]_vars

\* build_chunk_docs alone, on every list of segments within the bounds.
AsmSpecInit == ChunkIdle /\ NormIdle /\ AsmInit /\ EmbInit /\ PipeInit

AsmSpec == AsmSpecInit /\ [][AsmNext]_vars

\* Threads calling get_embedding_model, with loads that fail.
EmbSpecInit == ChunkIdle /\ NormIdle /\ AsmIdle /\ EmbInit /\ PipeInit

EmbSpec == EmbSpecInit /\ [][EmbNext]_vars

\* ---------------------------------------------------- chunker properties

\* The configurations section 4.2 of the specification accepts.
ValidConfig ==
    /\ ck_args.max_chars >= 1
    /\ 0 <= ck_args.min_chars /\ ck_args.min_chars <= ck_args.max_chars
    /\ 0 <= ck_args.overlap_chars /\ ck_args.overlap_chars < ck_args.max_chars

\* The last chunk of the result is the product of the tail merge.
TailMerged == ck_pc = "return" /\ ck_chunks # ck_raw

\* C6: for every text and every max_chars, min_chars, overlap_chars (overlap_chars
\* >= max_chars included), the window start strictly increases at each iteration
\* of the sliding loop. Stated on the configurations C7 does not name (max_chars
\* >= 1, min_chars <= max_chars), so that it does not rest on C7.
C6_ForwardProgress ==
    [][(/\ ck_args.max_chars >= 1
        /\ ck_args.min_chars <= ck_args.max_chars
        /\ ck_pc = "loop" /\ ck_pc' = "loop") => ck_i' > ck_i]_chunkVars

\* C7: a configuration with max_chars <= 0 or min_chars > max_chars is rejected
\* before chunking begins: the window loop is never entered with it and no chunk
\* is produced.
C7_InvalidConfigRejected ==
    (ck_args.max_chars <= 0 \/ ck_args.min_chars > ck_args.max_chars)
        => (ck_pc # "loop" /\ ck_pc # "tail" /\ ck_chunks = <<>>)

\* C8 as stated, on the configurations the specification accepts: every returned
\* chunk has min_chars <= length <= max_chars, except the single chunk of a text
\* no longer than max_chars and a merged tail chunk.
C8_AllChunksWithinBounds ==
    (ck_pc = "return" /\ ValidConfig /\ Len(ck_t) > ck_args.max_chars) =>
        \A k \in 1..Len(ck_chunks) :
            (TailMerged /\ k = Len(ck_chunks))
            \/ ( /\ Len(ck_chunks[k].text) >= ck_args.min_chars
                 /\ Len(ck_chunks[k].text) <= ck_args.max_chars )

\* C8 amended: every returned chunk is non-empty; with max_chars >= 0 it is no
\* longer than max_chars unless it is a merged tail chunk; the last chunk of a
\* multi-chunk result is a merged tail chunk or has at least min_chars characters
\* (an earlier chunk may be shorter than min_chars: each window is trimmed).
C8_ChunkBounds ==
    ck_pc = "return" =>
        \A k \in 1..Len(ck_chunks) :
            LET len    == Len(ck_chunks[k].text)
                last   == k = Len(ck_chunks)
                merged == TailMerged /\ last
            IN  /\ len >= 1
                /\ (ck_args.max_chars >= 0 /\ ~merged) => len <= ck_args.max_chars
                /\ (last /\ Len(ck_chunks) >= 2 /\ ~merged) => len >= ck_args.min_chars

\* C8 witness: an accepted configuration returns several chunks, the first of
\* them shorter than min_chars, and a run whose tail was merged past max_chars.
C8_Witness ==
    /\ ck_pc = "return"
    /\ ValidConfig
    /\ Len(ck_chunks) >= 2
    /\ Len(ck_chunks[1].text) < ck_args.min_chars
    /\ Len(ck_chunks[Len(ck_chunks)].text) >= ck_args.min_chars
    /\ ~TailMerged

\* C14 as stated: for a text no longer than max_chars the chunker returns
\* exactly one chunk, the normalized text at start_position.
C14_ShortTextOneChunk ==
    (ck_pc = "return" /\ Len(ck_args.text) <= ck_args.max_chars) =>
        ck_chunks = <<Chunk(normalize_text(ck_args.text), ck_args.page_index,
                            ck_args.start_position)>>

\* C14 amended: for a text whose normalized form is no longer than max_chars
\* (every text no longer than max_chars is one) the chunker returns exactly one
\* chunk, the normalized text with the page_index and at the start_position
\* given, unless the normalized text is empty: then it returns no chunk.
C14_ShortTextOneChunkUnlessEmpty ==
    ck_pc = "return" =>
        LET t == normalize_text(ck_args.text)
        IN  Len(t) <= ck_args.max_chars =>
                IF t = <<>>
                THEN ck_chunks = <<>>
                ELSE ck_chunks = <<Chunk(t, ck_args.page_index, ck_args.start_position)>>

\* C14 witness: a text no longer than max_chars that normalization changes was
\* returned as one chunk at a start_position other than 0.
C14_Witness ==
    /\ ck_pc = "return"
    /\ Len(ck_args.text) <= ck_args.max_chars
    /\ ck_t # <<>> /\ ck_t # ck_args.text
    /\ ck_args.start_position = 3
    /\ ck_chunks = <<Chunk(ck_t, ck_args.page_index, 3)>>

\* C18: when the loop produced at least two raw chunks and the last is shorter
\* than min_chars, the result has one chunk less, the chunks before the last two
\* are as they were, and the merged chunk has the position and page_index of
\* the previous chunk and the text previous, newline, last; when the last raw
\* chunk has at least min_chars characters the result is the raw chunks.
C18_TailMerge ==
    (ck_pc = "return" /\ Len(ck_raw) >= 2) =>
        LET k    == Len(ck_raw)
            last == ck_raw[k]
            prev == ck_raw[k - 1]
        IN  IF Len(last.text) < ck_args.min_chars
            THEN /\ Len(ck_chunks) = k - 1
                 /\ SubSeq(ck_chunks, 1, k - 2) = SubSeq(ck_raw, 1, k - 2)
                 /\ ck_chunks[k - 1] = Chunk(prev.text \o <<NL>> \o last.text,
                                             prev.page_index, prev.position)
                 /\ Len(ck_chunks[k - 1].text) = Len(prev.text) + Len(last.text) + 1
            ELSE ck_chunks = ck_raw

\* C18 witness: a run of three raw chunks on a page, numbered from 3, returned
\* two chunks, the second of them the merge of the last two.
C18_Witness ==
    /\ ck_pc = "return"
    /\ Len(ck_raw) = 3 /\ Len(ck_chunks) = 2
    /\ ck_args.page_index = 1 /\ ck_args.start_position = 3
    /\ ck_chunks[2].position = 4
    /\ Len(ck_chunks[2].text) > ck_args.max_chars

\* ------------------------------------------------ normalizer properties

\* C15: normalize_text applied to its own result returns it unchanged, for every
\* text over letters, spaces, "\n" and "\r".
C15_NormalizeIdempotent == nm_pc = "twice" => nm_out[2] = nm_out[1]

\* C15 witness: a text with a "\r\n", a lone "\r" and the blank line between
\* them was normalized twice.
C15_Witness ==
    /\ nm_pc = "twice"
    /\ nm_text = <<"a", CR, NL, CR, "a">>
    /\ nm_out = << <<"a", NL, "a">>, <<"a", NL, "a">> >>

\* ------------------------------------------------- assembler properties

\* The number of docs the first n segments added.
RECURSIVE Emitted(_, _)
Emitted(first, n) == IF n = 0 THEN 0 ELSE first[n].count + Emitted(first, n - 1)

\* C12: the k-th document assembled carries position k - 1, whatever segment it
\* came from, and each segment starts at the number of documents the segments
\* before it added.
C12_PositionsGlobal ==
    /\ \A k \in 1..Len(as_docs) : as_docs[k].position = k - 1
    /\ \A n \in 1..Len(as_first) : as_first[n].pos = Emitted(as_first, n - 1)
    /\ as_pos = Len(as_docs)

\* C12 witness: three segments were assembled, the first one chunk with a
\* merged tail, the second empty, and the chunk of the third is numbered 1.
C12_Witness ==
    /\ as_pc = "return"
    /\ Len(as_first) = 3
    /\ as_first[1].count = 1 /\ as_docs[1].chunk_text = <<"a", "a", NL, "a">>
    /\ as_first[2].count = 0
    /\ as_first[3].count = 1 /\ as_first[3].pos = 1
    /\ as_docs[2].page_index = 2 /\ as_docs[2].position = 1

\* --------------------------------------------------- replace properties

\* Handler h returns a success status in this step.
Completes(h) == h_pc[h] = "bulk" /\ h_pc'[h] = "idle" /\ h_status'[h] = "completed"

Acked == (1..rs_last) \ rs_pending

\* A RESOURCE_DELETED entry from which no resource id can be read.
Malformed(e) == e.event_type = "RESOURCE_DELETED" /\ Decode(e) # "delete"

\* C2: a RESOURCE_DELETED entry carrying a resource_id is acknowledged only
\* after its delete-by-resource-id returned without raising; an entry whose
\* delete raised is not acknowledged.
C2_AckAfterDelete ==
    /\ \A m \in Acked : Decode(rs_stream[m]) = "delete" => m \in c_deleted
    /\ \A m \in c_issued \ c_deleted : m \in rs_pending

\* C2 witness: one entry was acknowledged after its delete returned, another
\* is pending after its delete raised.
C2_Witness ==
    \E m \in Acked, k \in rs_pending :
        /\ Decode(rs_stream[m]) = "delete" /\ m \in c_deleted
        /\ k \in c_issued \ c_deleted
        /\ c_pc = "poll"

\* C3: an entry left unacknowledged by a cycle that failed is eventually
\* delivered again, processed and acknowledged.
C3_Redelivered ==
    \A m \in 1..MaxStream :
        (m \in rs_pending /\ c_pc = "sleep") ~> (m \notin rs_pending)

\* C4: when no call fails and the process is not restarted, a malformed entry
\* is acknowledged without a delete being issued for it, and so is every entry
\* delivered after it: once the consumer is back at its read, none is pending.
C4_MalformedSkipped ==
    (faults = 0 /\ restarts = 0 /\ c_pc = "poll") =>
        \A m \in 1..rs_last :
            (\E k \in 1..m : Malformed(rs_stream[k]))
                => (m \notin rs_pending /\ (Malformed(rs_stream[m]) => m \notin c_issued))

\* C5: the consumer, once started, never terminates on a stream-transport
\* error, at whatever step the error occurs.
C5_ConsumerNeverTerminates == c_pc # "dead"

\* C10: the delete of a resource with no entries in the index, as the second
\* processing of a RESOURCE_DELETED event issues it, leaves the index as it is
\* and does not raise when the engine answers: the consumer goes on to xack.
C10_DeleteAbsentNoop ==
    [][( /\ c_pc = "delete" /\ c_pc' \in {"ack", "sleep"}
         /\ faults' = faults
         /\ EntriesOf(es_index, ToString(rs_stream[Head(c_batch)].resource_id.num))
                = EmptyIndex )
       => (c_pc' = "ack" /\ es_index' = es_index /\ es_exists' = es_exists)]_vars

\* C10 witness: two entries carrying the same RESOURCE_DELETED event were both
\* processed and acknowledged, and the index holds nothing of the resource.
C10_Witness ==
    \E m \in Acked, k \in Acked :
        /\ m < k
        /\ rs_stream[m] = rs_stream[k]
        /\ {m, k} \subseteq c_deleted
        /\ EntriesOf(es_index, ToString(rs_stream[m].resource_id.num)) = EmptyIndex
        /\ c_pc = "poll"

\* The entry with id m has an event type other than RESOURCE_DELETED.
Unknown(m) == rs_stream[m].event_type # "RESOURCE_DELETED"

\* C19: while the consumer handles an entry whose event_type is not
\* RESOURCE_DELETED it issues no delete and the index stays as it is; from the
\* look at the entry it goes to xack, and an xack that does not fail takes the
\* entry off the pending list and goes on with the rest of the batch.
C19_UnknownTypeSkipped ==
    [][( /\ c_pc \in {"decode", "ack"}
         /\ Unknown(Head(c_batch))
         /\ restarts' = restarts )
       => /\ UNCHANGED esVars
          /\ c_issued' = c_issued
          /\ c_pc = "decode" => c_pc' \in {"decode", "ack"}
          /\ (c_pc = "ack" /\ c_pc' # "ack" /\ faults' = faults)
                 => /\ Head(c_batch) \notin rs_pending'
                    /\ c_batch' = Tail(c_batch)
                    /\ c_pc' = IF Tail(c_batch) = <<>> THEN "poll" ELSE "decode"]_vars

\* C19 witness: an entry of another type, naming a resource the index holds,
\* was acknowledged without a delete, the deletion after it was processed, and
\* the index still holds the resource.
C19_Witness ==
    \E m \in Acked, k \in Acked :
        /\ m < k
        /\ Unknown(m) /\ m \notin c_issued
        /\ rs_stream[m].resource_id.num = 1
        /\ k \in c_deleted
        /\ EntriesOf(es_index, "1") # EmptyIndex


\* ---------------------------------------------------- request properties

\* The statuses of a response of index_document and index_link.
Terminal == {"completed", "completed_with_warnings", "failed"}

\* C11: a replace with no documents, of a resource the index holds nothing of,
\* leaves the index as it is (not created, when it never was) and the request
\* returns a success status: the delete does not raise when the engine answers,
\* the bulk write of the empty list does nothing and cannot fail.
C11_EmptyReplaceNoop ==
    [][\A h \in Handlers :
          (h_docs[h] = <<>> /\ EntriesOf(es_index, ToString(h_rid[h])) = EmptyIndex) =>
              /\ (h_pc[h] = "delete" /\ h_pc'[h] # "delete" /\ faults' = faults)
                     => (h_pc'[h] = "bulk" /\ UNCHANGED esVars)
              /\ (h_pc[h] = "bulk" /\ h_pc'[h] # "bulk")
                     => /\ h_pc'[h] = "idle"
                        /\ h_status'[h] \in {"completed", "completed_with_warnings"}
                        /\ UNCHANGED esVars]_vars

\* C11 witness: a blank text file was indexed with success while the index did
\* not exist, and it still does not.
C11_Witness ==
    \E h \in Handlers :
        /\ h_pc[h] = "idle" /\ h_kind[h] = "document" /\ h_status[h] = "completed"
        /\ h_docs[h] = <<>>
        /\ es_index = EmptyIndex /\ ~es_exists

\* C13: a request that has ended was answered with a structured result, for
\* index_document and index_link one with a terminal status and, when failed,
\* an error code; no exception leaves a handler. Stated on the requests whose
\* handler ends, so that it does not rest on C6.
C13_StructuredResult ==
    \A h \in Handlers :
        (h_pc[h] = "idle" /\ h_kind[h] # "none") =>
            /\ h_status[h] # "unhandled"
            /\ h_kind[h] \in {"document", "link"} =>
                   /\ h_status[h] \in Terminal
                   /\ h_status[h] = "failed" => h_error[h] # ""

\* --------------------------------------------------- the race of replaces

\* The index holds, for the resource both handlers indexed, the documents of
\* both calls together.
Mixed(h, g) ==
    /\ h # g
    /\ h_pc[h] = "idle" /\ h_status[h] = "completed" /\ h_docs[h] # <<>>
    /\ h_pc[g] = "idle" /\ h_status[g] = "completed" /\ h_docs[g] # <<>>
    /\ h_rid[g] = h_rid[h]
    /\ EntriesOf(es_index, ToString(h_rid[h]))
           = BagSum(BagOfSeq(h_docs[h]), BagOfSeq(h_docs[g]))

\* C16: the index holds the documents of two completed calls for one resource
\* mixed only when one of the calls ran its delete and bulk write around an
\* index operation of another context on that resource; nothing in the handlers
\* or the consumer keeps such runs apart, so the mixed state is reached.
C16_MixedByRace ==
    \A h \in Handlers, g \in Handlers :
        Mixed(h, g) => (h_raced[h] = "same" \/ h_raced[g] = "same")

\* C16 witness: two calls with different documents for one resource both
\* returned success, the index holds the documents of both, and the
\* RESOURCE_DELETED event of that resource was processed and acknowledged.
C16_Witness ==
    \E h \in Handlers, g \in Handlers :
        /\ Mixed(h, g)
        /\ h_docs[h] # h_docs[g]
        /\ \E m \in (1..rs_last) \ rs_pending :
               /\ m \in c_deleted
               /\ rs_stream[m].resource_id.num = h_rid[h]

\* ------------------------------------------------- embedding properties

\* C17 as stated: whatever the callers ask for, the model is loaded exactly
\* once and every later call reuses the cached handle.
C17_LoadedOnce == Len(emb_log) <= 1

\* C17 amended: the load runs while the loading thread holds the lock, and a
\* load that succeeded is not repeated while callers ask for the same model
\* name: they leave the lock with the cached handle for that name. A call asking
\* for another name loads again and replaces the cached handle.
C17_LoadedOncePerName ==
    /\ \A t \in Handlers : e_pc[t] \in {"locked", "setname", "release"} => emb_lock = t
    /\ \A k \in 1..(Len(emb_log) - 1) : emb_log[k] # emb_log[k + 1]
    /\ (\A k \in 1..Len(emb_log) : emb_log[k] = emb_log[1]) => Len(emb_log) <= 1
    /\ \A t \in Handlers :
           e_pc[t] = "return" => (e_held[t].load >= 1 /\ e_held[t].name = e_name[t])

\* C17 witness: two threads called for the same name at the first use, one has
\* returned the handle of the only load, the other left the lock with it.
C17_Witness ==
    \E t \in Handlers, u \in Handlers :
        /\ t # u /\ calls = 2
        /\ e_pc[t] = "idle" /\ e_ret[t] = Handle(EMBEDDING_MODEL_NAME, 1)
        /\ e_pc[u] = "return" /\ e_held[u] = e_ret[t] /\ e_name[u] = e_name[t]
        /\ emb_log = <<EMBEDDING_MODEL_NAME>>

\* C20: a call of get_embedding_model that returned a handle returned one
\* loaded for the name it asked for, the handle cached when it released the
\* lock.
C20_HandleForRequestedName ==
    \A t \in Handlers :
        (e_pc[t] = "idle" /\ e_ret[t].load >= 1)
            => (e_ret[t].name = e_name[t] /\ e_ret[t] = e_held[t])

\* The error codes index_document and index_link answer with before stage 3.
EarlyCodes == {"UNSUPPORTED_FORMAT", "EXTRACT_ERROR", "EMBEDDING_ERROR", "EMPTY_TEXT"}

\* C21: a step in which a request is answered failed with UNSUPPORTED_FORMAT,
\* EXTRACT_ERROR, EMBEDDING_ERROR or EMPTY_TEXT starts and ends with its handler
\* outside the delete and bulk write, and leaves the index, the entries of every
\* resource, as it was.
C21_EarlyFailureLeavesIndex ==
    [][\A h \in Handlers :
          ( /\ requests' = requests + 1
            /\ h_status'[h] = "failed" /\ h_error'[h] \in EarlyCodes )
          => ( /\ h_pc[h] = "idle" /\ h_pc'[h] = "idle"
               /\ UNCHANGED esVars )]_vars

\* C21 witness: over an index holding both resources, a document request
\* failed with EMBEDDING_ERROR and a link request with EMPTY_TEXT, and the
\* index holds the entries of both resources as before.
C21_Witness ==
    \E h \in Handlers, g \in Handlers :
        /\ h_pc[h] = "idle" /\ h_kind[h] = "document"
        /\ h_status[h] = "failed" /\ h_error[h] = "EMBEDDING_ERROR"
        /\ h_pc[g] = "idle" /\ h_kind[g] = "link"
        /\ h_status[g] = "failed" /\ h_error[g] = "EMPTY_TEXT"
        /\ h_rid[h] # h_rid[g]
        /\ es_index \in SeededIndexes
        /\ EntriesOf(es_index, ToString(h_rid[h])) # EmptyIndex
        /\ EntriesOf(es_index, ToString(h_rid[g])) # EmptyIndex

====
